---- MODULE Spec2Model ----
(***************************************************************************)
(* AgentAlpha: a provider-reputation ledger with a commit-reveal protocol. *)
(* Model of the Anchor program in src/programs/agentalpha/src/lib.rs.      *)
(*                                                                         *)
(* State: the program's accounts (Provider and SignalCommit, each living   *)
(* at a program-derived address) and the Clock sysvar.                     *)
(* One action per instruction.  An instruction first validates the         *)
(* accounts it was handed (the #[derive(Accounts)] struct), then runs the  *)
(* handler, which returns a result code and the events it emitted; the     *)
(* account changes are kept only when the result is Ok.                    *)
(***************************************************************************)
EXTENDS Integers, Sequences, FiniteSets, TLC

VARIABLES providers, signal_commits, now

vars == <<providers, signal_commits, now>>

----------------------------------------------------------------------------
(* Bounds of the model *)

\* Largest value of the clock (unix_timestamp) explored.
MaxTime == 3

\* Largest value of the clock explored with two providers.
MaxTimeOwners == 2

----------------------------------------------------------------------------
(* Program constants *)

MaxNameLen == 64
MaxEndpointLen == 256
MaxCategories == 8
MaxTokenLen == 16
MaxDirection == 1
MinTimeframe == 1
MaxTimeframe == 72
MaxConfidence == 100
TP_HIT == 1
SL_HIT == 2
EXPIRED == 3
BpsScale == 10000

----------------------------------------------------------------------------
(* Strings are sequences of one-character strings; len() is Len. *)

Str(c, n) == [i \in 1..n |-> c]

None == <<>>
Some(x) == <<x>>
IsSome(o) == Len(o) = 1
Unwrap(o) == o[1]

\* Signers (wallet public keys).
Keys == {"alice", "bob"}

----------------------------------------------------------------------------
(* Canonical encoding of a reveal payload and its digest *)

DigitChar(d) == <<"0", "1", "2", "3", "4", "5", "6", "7", "8", "9">>[d + 1]

\* Display of an unsigned integer: decimal, no sign, no leading zeros.
RECURSIVE Decimal(_)
Decimal(n) == IF n < 10 THEN <<DigitChar(n)>>
              ELSE Decimal(n \div 10) \o <<DigitChar(n % 10)>>

\* Fault: the format string leaves the confidence out.
data_to_hash_NoConfidence(token, direction, entry_cents, tp_cents, sl_cents, timeframe_hours, confidence) ==
    token \o <<":">> \o Decimal(direction) \o <<":">> \o Decimal(entry_cents) \o <<":">>
          \o Decimal(tp_cents) \o <<":">> \o Decimal(sl_cents) \o <<":">>
          \o Decimal(timeframe_hours)

\* format!("{}:{}:{}:{}:{}:{}:{}", token, direction, entry, tp, sl, timeframe, confidence)
data_to_hash(token, direction, entry_cents, tp_cents, sl_cents, timeframe_hours, confidence) ==
    token \o <<":">> \o Decimal(direction) \o <<":">> \o Decimal(entry_cents) \o <<":">>
          \o Decimal(tp_cents) \o <<":">> \o Decimal(sl_cents) \o <<":">>
          \o Decimal(timeframe_hours) \o <<":">> \o Decimal(confidence)

\* SHA-256 as an ideal (collision-free) hash: the digest of a byte string is
\* the byte string tagged; no two byte strings share a digest.
Sha256(bytes) == <<"sha256">> \o bytes

Encode(P) == data_to_hash(P.token, P.direction, P.entry_cents, P.tp_cents,
                          P.sl_cents, P.timeframe_hours, P.confidence)

Digest(P) == Sha256(Encode(P))

----------------------------------------------------------------------------
(* Inputs explored by the model *)

\* The payload of the worked example: "BTC:0:6500000:6700000:6400000:24:80".
P0 == [token |-> <<"B", "T", "C">>, direction |-> 0, entry_cents |-> 6500000,
       tp_cents |-> 6700000, sl_cents |-> 6400000, timeframe_hours |-> 24,
       confidence |-> 80]

\* Other values tried for each field; some are within the bounds the
\* handler accepts, some are outside them.
Tokens == {<<"B", "T", "C", ":", "0">>, Str("X", MaxTokenLen + 1)}
Directions == {1, 2}
Entries == {6500001}
TakeProfits == {6400000}
StopLosses == {6700000}
Timeframes == {0, 72, 73}
Confidences == {100, 101}

\* P0 and every payload that differs from P0 in exactly one field.
Payloads ==
    {P0} \cup {[P0 EXCEPT !.token = v] : v \in Tokens}
         \cup {[P0 EXCEPT !.direction = v] : v \in Directions}
         \cup {[P0 EXCEPT !.entry_cents = v] : v \in Entries}
         \cup {[P0 EXCEPT !.tp_cents = v] : v \in TakeProfits}
         \cup {[P0 EXCEPT !.sl_cents = v] : v \in StopLosses}
         \cup {[P0 EXCEPT !.timeframe_hours = v] : v \in Timeframes}
         \cup {[P0 EXCEPT !.confidence = v] : v \in Confidences}

P1 == [P0 EXCEPT !.direction = 1]
P2 == [P0 EXCEPT !.confidence = 100]
PBad == [P0 EXCEPT !.timeframe_hours = 73]

\* Digests a provider commits to: of an acceptable payload and of one whose
\* timeframe is out of range.
CommitHashes == {Digest(P0), Digest(PBad)}

\* Digests of three acceptable payloads.
StatsHashes == {Digest(P0), Digest(P1), Digest(P2)}

Outcomes == 0..4
FinalPrices == {6700000}
ReturnBps == {-7, 0, 5}

NameOk == Str("n", 8)
EndpointOk == Str("e", 9)
RegisterNames == {NameOk, Str("n", MaxNameLen + 1)}
RegisterEndpoints == {EndpointOk, Str("e", MaxEndpointLen + 1)}
RegisterCategories == {<<1, 2>>, Str(1, MaxCategories + 1)}
Prices == {1000000}

----------------------------------------------------------------------------
(* Program-derived addresses *)

\* seeds = [b"provider", authority.key()]
ProviderPda(authority) == <<"provider", authority>>

\* Fault: the seeds leave the provider's key out.
SignalPda_NoProvider(provider, signal_hash) == <<"signal", signal_hash>>

\* seeds = [b"signal", provider.key(), signal_hash]
SignalPda(provider, signal_hash) == <<"signal", provider, signal_hash>>

ProviderAddrs == {ProviderPda(a) : a \in Keys}
SignalAddrs(hashes) == {SignalPda(p, h) : p \in ProviderAddrs, h \in hashes}

\* An account exists once the program has initialised it.
IsProvider(a) == a \in DOMAIN providers
IsSignal(a) == a \in DOMAIN signal_commits

----------------------------------------------------------------------------
(* Results *)

Ok == "Ok"

\* Errors raised while the accounts of an instruction are validated.
AccountErrors == {"AccountNotInitialized", "AccountAlreadyInUse", "ConstraintSeeds",
                  "ConstraintHasOne", "ConstraintRaw"}

\* What a handler returns: a result code, the accounts as it leaves them,
\* and the events it emitted.
Return(result, provider, commit, events) ==
    [result |-> result, provider |-> provider, commit |-> commit, events |-> events]

----------------------------------------------------------------------------
(* Account data *)

\* A freshly allocated SignalCommit account: every byte is zero.
ZeroSignalCommit ==
    [provider |-> None, signal_hash |-> None, committed_at |-> 0,
     revealed |-> FALSE, outcome_recorded |-> FALSE,
     token |-> <<>>, direction |-> 0, entry_cents |-> 0, tp_cents |-> 0,
     sl_cents |-> 0, timeframe_hours |-> 0, confidence |-> 0, revealed_at |-> 0,
     outcome |-> 0, final_price_cents |-> 0, was_correct |-> FALSE,
     return_bps |-> 0, evaluated_at |-> 0]

\* The reveal payload stored in a SignalCommit account.
StoredPayload(c) ==
    [token |-> c.token, direction |-> c.direction, entry_cents |-> c.entry_cents,
     tp_cents |-> c.tp_cents, sl_cents |-> c.sl_cents,
     timeframe_hours |-> c.timeframe_hours, confidence |-> c.confidence]

----------------------------------------------------------------------------
(* Provider: derived statistics *)

\* Integer division of Rust: the quotient is truncated toward zero.
TruncDiv(a, b) == IF a >= 0 THEN a \div b ELSE -((-a) \div b)

hit_rate_bps(self) ==
    IF self.total_signals = 0 THEN 0
    ELSE (self.correct_signals * BpsScale) \div self.total_signals

\* Fault: the quotient is rounded toward minus infinity.
avg_return_bps_Floor(self) ==
    IF self.total_signals = 0 THEN 0
    ELSE self.total_return_bps \div self.total_signals

avg_return_bps(self) ==
    IF self.total_signals = 0 THEN 0
    ELSE TruncDiv(self.total_return_bps, self.total_signals)

----------------------------------------------------------------------------
(* Instruction handlers *)

register_provider(authority, key, clock, name, endpoint, categories, price_lamports) ==
    IF Len(name) > MaxNameLen THEN Return("NameTooLong", None, None, <<>>)
    ELSE IF Len(endpoint) > MaxEndpointLen THEN Return("EndpointTooLong", None, None, <<>>)
    ELSE IF Len(categories) > MaxCategories THEN Return("TooManyCategories", None, None, <<>>)
    ELSE Return(Ok,
                [authority |-> authority, name |-> name, endpoint |-> endpoint,
                 categories |-> categories, price_lamports |-> price_lamports,
                 total_signals |-> 0, correct_signals |-> 0, total_return_bps |-> 0,
                 created_at |-> clock, updated_at |-> clock],
                None,
                <<[type |-> "ProviderRegistered", provider |-> key,
                   authority |-> authority, name |-> name, endpoint |-> endpoint]>>)

\* Fault: a field that is absent is cleared.
update_provider_ClearsAbsent(provider, clock, name, endpoint, price_lamports) ==
    IF IsSome(name) /\ Len(Unwrap(name)) > MaxNameLen
    THEN Return("NameTooLong", provider, None, <<>>)
    ELSE LET p1 == IF IsSome(name) THEN [provider EXCEPT !.name = Unwrap(name)]
                   ELSE provider
         IN IF IsSome(endpoint) /\ Len(Unwrap(endpoint)) > MaxEndpointLen
            THEN Return("EndpointTooLong", p1, None, <<>>)
            ELSE LET p2 == IF IsSome(endpoint)
                           THEN [p1 EXCEPT !.endpoint = Unwrap(endpoint)] ELSE p1
                     p3 == IF IsSome(price_lamports)
                           THEN [p2 EXCEPT !.price_lamports = Unwrap(price_lamports)]
                           ELSE [p2 EXCEPT !.price_lamports = 0]
                 IN Return(Ok, [p3 EXCEPT !.updated_at = clock], None, <<>>)

\* Fault: an update starts the statistics of the provider afresh.
update_provider_ResetsCounters(provider, clock, name, endpoint, price_lamports) ==
    IF IsSome(name) /\ Len(Unwrap(name)) > MaxNameLen
    THEN Return("NameTooLong", provider, None, <<>>)
    ELSE LET p1 == IF IsSome(name) THEN [provider EXCEPT !.name = Unwrap(name)]
                   ELSE provider
         IN IF IsSome(endpoint) /\ Len(Unwrap(endpoint)) > MaxEndpointLen
            THEN Return("EndpointTooLong", p1, None, <<>>)
            ELSE LET p2 == IF IsSome(endpoint)
                           THEN [p1 EXCEPT !.endpoint = Unwrap(endpoint)] ELSE p1
                     p3 == IF IsSome(price_lamports)
                           THEN [p2 EXCEPT !.price_lamports = Unwrap(price_lamports)]
                           ELSE p2
                 IN Return(Ok, [p3 EXCEPT !.updated_at = clock, !.total_signals = 0,
                                          !.correct_signals = 0,
                                          !.total_return_bps = 0], None, <<>>)

update_provider(provider, clock, name, endpoint, price_lamports) ==
    IF IsSome(name) /\ Len(Unwrap(name)) > MaxNameLen
    THEN Return("NameTooLong", provider, None, <<>>)
    ELSE LET p1 == IF IsSome(name) THEN [provider EXCEPT !.name = Unwrap(name)]
                   ELSE provider
         IN IF IsSome(endpoint) /\ Len(Unwrap(endpoint)) > MaxEndpointLen
            THEN Return("EndpointTooLong", p1, None, <<>>)
            ELSE LET p2 == IF IsSome(endpoint)
                           THEN [p1 EXCEPT !.endpoint = Unwrap(endpoint)] ELSE p1
                     p3 == IF IsSome(price_lamports)
                           THEN [p2 EXCEPT !.price_lamports = Unwrap(price_lamports)]
                           ELSE p2
                 IN Return(Ok, [p3 EXCEPT !.updated_at = clock], None, <<>>)

commit_signal(provider_key, clock, signal_hash) ==
    Return(Ok, None,
           [ZeroSignalCommit EXCEPT !.provider = provider_key,
                                    !.signal_hash = signal_hash,
                                    !.committed_at = clock,
                                    !.revealed = FALSE,
                                    !.outcome_recorded = FALSE],
           <<[type |-> "SignalCommitted", provider |-> provider_key,
              signal_hash |-> signal_hash, committed_at |-> clock]>>)

\* Fault: the hash comparison is dropped.
HashMatches_Always(computed_hash, signal_hash) == TRUE

\* computed_hash == commit.signal_hash
HashMatches(computed_hash, signal_hash) == computed_hash = signal_hash

\* Fault: the time of the reveal is not stored.
StoreReveal_NoTimestamp(commit, clock, token, direction, entry_cents, tp_cents, sl_cents, timeframe_hours, confidence) ==
    [commit EXCEPT !.revealed = TRUE, !.token = token, !.direction = direction,
                   !.entry_cents = entry_cents, !.tp_cents = tp_cents,
                   !.sl_cents = sl_cents, !.timeframe_hours = timeframe_hours,
                   !.confidence = confidence]

\* Store revealed data.
StoreReveal(commit, clock, token, direction, entry_cents, tp_cents, sl_cents, timeframe_hours, confidence) ==
    [commit EXCEPT !.revealed = TRUE, !.token = token, !.direction = direction,
                   !.entry_cents = entry_cents, !.tp_cents = tp_cents,
                   !.sl_cents = sl_cents, !.timeframe_hours = timeframe_hours,
                   !.confidence = confidence, !.revealed_at = clock]

\* Fault: the timeframe has no upper limit.
RevealRequire_NoTimeframeLimit(commit, token, direction, timeframe_hours, confidence) ==
    IF commit.revealed THEN "AlreadyRevealed"
    ELSE IF Len(token) > MaxTokenLen THEN "TokenTooLong"
    ELSE IF direction > MaxDirection THEN "InvalidDirection"
    ELSE IF ~(timeframe_hours >= MinTimeframe) THEN "InvalidTimeframe"
    ELSE IF confidence > MaxConfidence THEN "InvalidConfidence"
    ELSE Ok

\* Fault: the check of commit.revealed is missing.
RevealRequire_NoRevealedCheck(commit, token, direction, timeframe_hours, confidence) ==
    IF Len(token) > MaxTokenLen THEN "TokenTooLong"
    ELSE IF direction > MaxDirection THEN "InvalidDirection"
    ELSE IF ~(timeframe_hours >= MinTimeframe /\ timeframe_hours <= MaxTimeframe)
         THEN "InvalidTimeframe"
    ELSE IF confidence > MaxConfidence THEN "InvalidConfidence"
    ELSE Ok

\* The require! checks made before the hash is computed: Ok, or the error of
\* the first check that fails.
RevealRequire(commit, token, direction, timeframe_hours, confidence) ==
    IF commit.revealed THEN "AlreadyRevealed"
    ELSE IF Len(token) > MaxTokenLen THEN "TokenTooLong"
    ELSE IF direction > MaxDirection THEN "InvalidDirection"
    ELSE IF ~(timeframe_hours >= MinTimeframe /\ timeframe_hours <= MaxTimeframe)
         THEN "InvalidTimeframe"
    ELSE IF confidence > MaxConfidence THEN "InvalidConfidence"
    ELSE Ok

\* Fault: the data are stored and the event emitted before the hash is
\* compared.
reveal_signal_StoresFirst(commit, clock, token, direction, entry_cents, tp_cents, sl_cents, timeframe_hours, confidence) ==
    LET checked == RevealRequire(commit, token, direction, timeframe_hours, confidence)
        computed_hash ==
            Sha256(data_to_hash(token, direction, entry_cents, tp_cents, sl_cents,
                                timeframe_hours, confidence))
        c == StoreReveal(commit, clock, token, direction, entry_cents, tp_cents,
                         sl_cents, timeframe_hours, confidence)
        e == <<[type |-> "SignalRevealed", provider |-> c.provider,
                signal_hash |-> c.signal_hash, token |-> c.token,
                direction |-> c.direction, entry_cents |-> c.entry_cents,
                tp_cents |-> c.tp_cents, sl_cents |-> c.sl_cents,
                timeframe_hours |-> c.timeframe_hours,
                confidence |-> c.confidence]>>
    IN IF checked # Ok THEN Return(checked, None, commit, <<>>)
       ELSE IF ~HashMatches(computed_hash, commit.signal_hash)
            THEN Return("HashMismatch", None, c, e)
       ELSE Return(Ok, None, c, e)

reveal_signal(commit, clock, token, direction, entry_cents, tp_cents, sl_cents, timeframe_hours, confidence) ==
    LET checked == RevealRequire(commit, token, direction, timeframe_hours, confidence)
        computed_hash ==
            Sha256(data_to_hash(token, direction, entry_cents, tp_cents, sl_cents,
                                timeframe_hours, confidence))
        c == StoreReveal(commit, clock, token, direction, entry_cents, tp_cents,
                         sl_cents, timeframe_hours, confidence)
    IN IF checked # Ok THEN Return(checked, None, commit, <<>>)
       ELSE IF ~HashMatches(computed_hash, commit.signal_hash)
            THEN Return("HashMismatch", None, commit, <<>>)
       ELSE Return(Ok, None, c,
                   <<[type |-> "SignalRevealed", provider |-> c.provider,
                      signal_hash |-> c.signal_hash, token |-> c.token,
                      direction |-> c.direction, entry_cents |-> c.entry_cents,
                      tp_cents |-> c.tp_cents, sl_cents |-> c.sl_cents,
                      timeframe_hours |-> c.timeframe_hours,
                      confidence |-> c.confidence]>>)

\* Fault: an expired signal that broke even counts as correct.
WasCorrect_NonNegative(outcome, return_bps) ==
    CASE outcome = TP_HIT -> TRUE
      [] outcome = SL_HIT -> FALSE
      [] outcome = EXPIRED -> return_bps >= 0
      [] OTHER -> FALSE

\* TP_HIT = correct, SL_HIT = wrong, EXPIRED = correct if profitable.
WasCorrect(outcome, return_bps) ==
    CASE outcome = TP_HIT -> TRUE
      [] outcome = SL_HIT -> FALSE
      [] outcome = EXPIRED -> return_bps > 0
      [] OTHER -> FALSE

\* Fault: the time of the resolve is written to revealed_at.
StoreOutcome_StampsReveal(commit, clock, outcome, final_price_cents, was_correct, return_bps) ==
    [commit EXCEPT !.outcome_recorded = TRUE, !.outcome = outcome,
                   !.final_price_cents = final_price_cents,
                   !.was_correct = was_correct, !.return_bps = return_bps,
                   !.revealed_at = clock]

\* Store outcome data.
StoreOutcome(commit, clock, outcome, final_price_cents, was_correct, return_bps) ==
    [commit EXCEPT !.outcome_recorded = TRUE, !.outcome = outcome,
                   !.final_price_cents = final_price_cents,
                   !.was_correct = was_correct, !.return_bps = return_bps,
                   !.evaluated_at = clock]

\* Fault: the return of the signal is not added to the total.
UpdateReputation_NoReturn(provider, clock, was_correct, return_bps) ==
    [provider EXCEPT !.total_signals = @ + 1,
                     !.correct_signals = IF was_correct THEN @ + 1 ELSE @,
                     !.updated_at = clock]

\* Fault: total_signals counts the wrong signals only.
UpdateReputation_CountsLosses(provider, clock, was_correct, return_bps) ==
    [provider EXCEPT !.total_signals = IF was_correct THEN @ ELSE @ + 1,
                     !.correct_signals = IF was_correct THEN @ + 1 ELSE @,
                     !.total_return_bps = @ + return_bps,
                     !.updated_at = clock]

\* Fault: the return of the signal replaces the total.
UpdateReputation_LastReturn(provider, clock, was_correct, return_bps) ==
    [provider EXCEPT !.total_signals = @ + 1,
                     !.correct_signals = IF was_correct THEN @ + 1 ELSE @,
                     !.total_return_bps = return_bps,
                     !.updated_at = clock]

\* Fault: every signal is counted as correct.
UpdateReputation_AlwaysCorrect(provider, clock, was_correct, return_bps) ==
    [provider EXCEPT !.total_signals = @ + 1,
                     !.correct_signals = @ + 1,
                     !.total_return_bps = @ + return_bps,
                     !.updated_at = clock]

\* Update provider reputation.
UpdateReputation(provider, clock, was_correct, return_bps) ==
    [provider EXCEPT !.total_signals = @ + 1,
                     !.correct_signals = IF was_correct THEN @ + 1 ELSE @,
                     !.total_return_bps = @ + return_bps,
                     !.updated_at = clock]

\* Fault: the check of commit.revealed is missing.
OutcomeRequire_NoRevealedCheck(commit, outcome) ==
    IF commit.outcome_recorded THEN "OutcomeAlreadyRecorded"
    ELSE IF ~(outcome >= TP_HIT /\ outcome <= EXPIRED) THEN "InvalidOutcome"
    ELSE Ok

\* Fault: the check of commit.outcome_recorded is missing.
OutcomeRequire_NoRecordedCheck(commit, outcome) ==
    IF ~commit.revealed THEN "NotRevealed"
    ELSE IF ~(outcome >= TP_HIT /\ outcome <= EXPIRED) THEN "InvalidOutcome"
    ELSE Ok

\* Fault: the outcome is checked before the state of the commitment.
OutcomeRequire_OutcomeFirst(commit, outcome) ==
    IF ~(outcome >= TP_HIT /\ outcome <= EXPIRED) THEN "InvalidOutcome"
    ELSE IF ~commit.revealed THEN "NotRevealed"
    ELSE IF commit.outcome_recorded THEN "OutcomeAlreadyRecorded"
    ELSE Ok

\* The require! checks of record_outcome: Ok, or the error of the first
\* check that fails.
OutcomeRequire(commit, outcome) ==
    IF ~commit.revealed THEN "NotRevealed"
    ELSE IF commit.outcome_recorded THEN "OutcomeAlreadyRecorded"
    ELSE IF ~(outcome >= TP_HIT /\ outcome <= EXPIRED) THEN "InvalidOutcome"
    ELSE Ok

\* Fault: the event is built from the provider as it was before the update.
record_outcome_EventBeforeUpdate(commit, provider, provider_key, clock, outcome, final_price_cents, return_bps) ==
    LET checked == OutcomeRequire(commit, outcome)
        was_correct == WasCorrect(outcome, return_bps)
        c == StoreOutcome(commit, clock, outcome, final_price_cents, was_correct,
                          return_bps)
        p == UpdateReputation(provider, clock, was_correct, return_bps)
    IN IF checked # Ok THEN Return(checked, provider, commit, <<>>)
       ELSE Return(Ok, p, c,
                   <<[type |-> "OutcomeRecorded", provider |-> provider_key,
                      signal_hash |-> c.signal_hash, outcome |-> outcome,
                      was_correct |-> was_correct, return_bps |-> return_bps,
                      total_signals |-> provider.total_signals,
                      correct_signals |-> provider.correct_signals]>>)

record_outcome(commit, provider, provider_key, clock, outcome, final_price_cents, return_bps) ==
    LET checked == OutcomeRequire(commit, outcome)
        was_correct == WasCorrect(outcome, return_bps)
        c == StoreOutcome(commit, clock, outcome, final_price_cents, was_correct,
                          return_bps)
        p == UpdateReputation(provider, clock, was_correct, return_bps)
    IN IF checked # Ok THEN Return(checked, provider, commit, <<>>)
       ELSE Return(Ok, p, c,
                   <<[type |-> "OutcomeRecorded", provider |-> provider_key,
                      signal_hash |-> c.signal_hash, outcome |-> outcome,
                      was_correct |-> was_correct, return_bps |-> return_bps,
                      total_signals |-> p.total_signals,
                      correct_signals |-> p.correct_signals]>>)

----------------------------------------------------------------------------
(* Account validation: the #[derive(Accounts)] structs.  Each yields Ok or
   the error of the first check that fails: the accounts are loaded first
   (an address holding no account of the program cannot be loaded), then
   the constraints are checked field by field. *)

\* Fault: init_if_needed, an account already in use is taken again.
RegisterProvider_InitIfNeeded(provider, authority) ==
    IF provider # ProviderPda(authority) THEN "ConstraintSeeds"
    ELSE Ok

RegisterProvider(provider, authority) ==
    IF provider # ProviderPda(authority) THEN "ConstraintSeeds"
    ELSE IF IsProvider(provider) THEN "AccountAlreadyInUse"
    ELSE Ok

UpdateProvider(provider, authority) ==
    IF ~IsProvider(provider) THEN "AccountNotInitialized"
    ELSE IF provider # ProviderPda(authority) THEN "ConstraintSeeds"
    ELSE IF providers[provider].authority # authority THEN "ConstraintHasOne"
    ELSE Ok

\* Fault: init_if_needed, an account already in use is taken again.
CommitSignal_InitIfNeeded(signal_commit, provider, authority, signal_hash) ==
    IF ~IsProvider(provider) THEN "AccountNotInitialized"
    ELSE IF signal_commit # SignalPda(provider, signal_hash) THEN "ConstraintSeeds"
    ELSE IF provider # ProviderPda(authority) THEN "ConstraintSeeds"
    ELSE IF providers[provider].authority # authority THEN "ConstraintHasOne"
    ELSE Ok

CommitSignal(signal_commit, provider, authority, signal_hash) ==
    IF ~IsProvider(provider) THEN "AccountNotInitialized"
    ELSE IF signal_commit # SignalPda(provider, signal_hash) THEN "ConstraintSeeds"
    ELSE IF IsSignal(signal_commit) THEN "AccountAlreadyInUse"
    ELSE IF provider # ProviderPda(authority) THEN "ConstraintSeeds"
    ELSE IF providers[provider].authority # authority THEN "ConstraintHasOne"
    ELSE Ok

\* Fault: the provider account is not tied to the signer.
RevealSignal_AnySigner(signal_commit, provider, authority) ==
    IF ~IsSignal(signal_commit) \/ ~IsProvider(provider) THEN "AccountNotInitialized"
    ELSE IF signal_commit # SignalPda(provider, signal_commits[signal_commit].signal_hash)
         THEN "ConstraintSeeds"
    ELSE Ok

RevealSignal(signal_commit, provider, authority) ==
    IF ~IsSignal(signal_commit) \/ ~IsProvider(provider) THEN "AccountNotInitialized"
    ELSE IF signal_commit # SignalPda(provider, signal_commits[signal_commit].signal_hash)
         THEN "ConstraintSeeds"
    ELSE IF provider # ProviderPda(authority) THEN "ConstraintSeeds"
    ELSE IF providers[provider].authority # authority THEN "ConstraintHasOne"
    ELSE Ok

\* Fault: the provider account is not tied to the commitment.
RecordOutcome_AnyProvider(signal_commit, provider, oracle) ==
    IF ~IsSignal(signal_commit) \/ ~IsProvider(provider) THEN "AccountNotInitialized"
    ELSE Ok

\* The oracle is any signer: no constraint names it.
RecordOutcome(signal_commit, provider, oracle) ==
    IF ~IsSignal(signal_commit) \/ ~IsProvider(provider) THEN "AccountNotInitialized"
    ELSE IF signal_commit # SignalPda(provider, signal_commits[signal_commit].signal_hash)
         THEN "ConstraintSeeds"
    ELSE IF signal_commits[signal_commit].provider # provider THEN "ConstraintRaw"
    ELSE Ok

----------------------------------------------------------------------------
(* Instructions: what one returns, and what it does to the accounts *)

\* The account map f with an account of data d created at address a.
Put(f, a, d) == [x \in DOMAIN f \cup {a} |-> IF x = a THEN d ELSE f[x]]

\* An instruction rejected by the account validation never runs its handler.
Refused(error) == Return(error, None, None, <<>>)

RegisterProviderTx(provider, authority, name, endpoint, categories, price_lamports) ==
    IF RegisterProvider(provider, authority) # Ok
    THEN Refused(RegisterProvider(provider, authority))
    ELSE register_provider(authority, provider, now, name, endpoint, categories,
                           price_lamports)

UpdateProviderTx(provider, authority, name, endpoint, price_lamports) ==
    IF UpdateProvider(provider, authority) # Ok
    THEN Refused(UpdateProvider(provider, authority))
    ELSE update_provider(providers[provider], now, name, endpoint, price_lamports)

CommitSignalTx(signal_commit, provider, authority, signal_hash) ==
    IF CommitSignal(signal_commit, provider, authority, signal_hash) # Ok
    THEN Refused(CommitSignal(signal_commit, provider, authority, signal_hash))
    ELSE commit_signal(provider, now, signal_hash)

RevealSignalTx(signal_commit, provider, authority, P) ==
    IF RevealSignal(signal_commit, provider, authority) # Ok
    THEN Refused(RevealSignal(signal_commit, provider, authority))
    ELSE reveal_signal(signal_commits[signal_commit], now, P.token, P.direction,
                       P.entry_cents, P.tp_cents, P.sl_cents, P.timeframe_hours,
                       P.confidence)

RecordOutcomeTx(signal_commit, provider, oracle, outcome, final_price_cents, return_bps) ==
    IF RecordOutcome(signal_commit, provider, oracle) # Ok
    THEN Refused(RecordOutcome(signal_commit, provider, oracle))
    ELSE record_outcome(signal_commits[signal_commit], providers[provider], provider,
                        now, outcome, final_price_cents, return_bps)

\* An instruction that returns an error leaves every account as it was:
\* whatever the handler wrote before the error is discarded.

RegisterProviderIx(provider, authority, name, endpoint, categories, price_lamports) ==
    LET r == RegisterProviderTx(provider, authority, name, endpoint, categories,
                                price_lamports)
    IN IF r.result # Ok THEN UNCHANGED vars
       ELSE /\ providers' = Put(providers, provider, r.provider)
            /\ UNCHANGED <<signal_commits, now>>

\* Fault: what the handler wrote before it returned an error is kept.
UpdateProviderIx_KeepsWrites(provider, authority, name, endpoint, price_lamports) ==
    LET r == UpdateProviderTx(provider, authority, name, endpoint, price_lamports)
    IN IF r.result \in AccountErrors THEN UNCHANGED vars
       ELSE /\ providers' = [providers EXCEPT ![provider] = r.provider]
            /\ UNCHANGED <<signal_commits, now>>

UpdateProviderIx(provider, authority, name, endpoint, price_lamports) ==
    LET r == UpdateProviderTx(provider, authority, name, endpoint, price_lamports)
    IN IF r.result # Ok THEN UNCHANGED vars
       ELSE /\ providers' = [providers EXCEPT ![provider] = r.provider]
            /\ UNCHANGED <<signal_commits, now>>

CommitSignalIx(signal_commit, provider, authority, signal_hash) ==
    LET r == CommitSignalTx(signal_commit, provider, authority, signal_hash)
    IN IF r.result # Ok THEN UNCHANGED vars
       ELSE /\ signal_commits' = Put(signal_commits, signal_commit, r.commit)
            /\ UNCHANGED <<providers, now>>

RevealSignalIx(signal_commit, provider, authority, P) ==
    LET r == RevealSignalTx(signal_commit, provider, authority, P)
    IN IF r.result # Ok THEN UNCHANGED vars
       ELSE /\ signal_commits' = [signal_commits EXCEPT ![signal_commit] = r.commit]
            /\ UNCHANGED <<providers, now>>

RecordOutcomeIx(signal_commit, provider, oracle, outcome, final_price_cents, return_bps) ==
    LET r == RecordOutcomeTx(signal_commit, provider, oracle, outcome,
                             final_price_cents, return_bps)
    IN IF r.result # Ok THEN UNCHANGED vars
       ELSE /\ signal_commits' = [signal_commits EXCEPT ![signal_commit] = r.commit]
            /\ providers' = [providers EXCEPT ![provider] = r.provider]
            /\ UNCHANGED now

----------------------------------------------------------------------------
(* The system *)

Init ==
    /\ providers = <<>>
    /\ signal_commits = <<>>
    /\ now = 1

\* The Clock sysvar advances between instructions.
Tick ==
    /\ now < MaxTime
    /\ now' = now + 1
    /\ UNCHANGED <<providers, signal_commits>>

\* The clock advancing up to a given limit.
Advance(limit) ==
    /\ now < limit
    /\ now' = now + 1
    /\ UNCHANGED <<providers, signal_commits>>

\* Each instruction, with its signer, accounts and arguments drawn from the
\* given sets.  The arguments are drawn once the accounts are accepted: a
\* refusal by the account validation does not depend on them.

RegisterProviderAction(authorities) ==
    \E provider \in ProviderAddrs, authority \in authorities :
        IF RegisterProvider(provider, authority) # Ok THEN UNCHANGED vars
        ELSE \E name \in RegisterNames, endpoint \in RegisterEndpoints,
                categories \in RegisterCategories, price_lamports \in Prices :
                 RegisterProviderIx(provider, authority, name, endpoint, categories,
                                    price_lamports)

UpdateProviderAction(authorities, names, endpoints, prices) ==
    \E provider \in ProviderAddrs, authority \in authorities :
        IF UpdateProvider(provider, authority) # Ok THEN UNCHANGED vars
        ELSE \E name \in {None} \cup {Some(n) : n \in names},
                endpoint \in {None} \cup {Some(e) : e \in endpoints},
                price_lamports \in {None} \cup {Some(p) : p \in prices} :
                 UpdateProviderIx(provider, authority, name, endpoint, price_lamports)

CommitSignalAction(authorities, hashes) ==
    \E provider \in ProviderAddrs, authority \in authorities :
        IF ~IsProvider(provider) THEN UNCHANGED vars
        ELSE \E signal_hash \in hashes,
                signal_commit \in SignalAddrs(hashes) :
                 CommitSignalIx(signal_commit, provider, authority, signal_hash)

RevealSignalAction(authorities, hashes, payloads) ==
    \E signal_commit \in SignalAddrs(hashes),
       provider \in ProviderAddrs, authority \in authorities :
        IF RevealSignal(signal_commit, provider, authority) # Ok THEN UNCHANGED vars
        ELSE \E P \in payloads : RevealSignalIx(signal_commit, provider, authority, P)

RecordOutcomeAction(oracles, hashes, outcomes, returns) ==
    \E signal_commit \in SignalAddrs(hashes),
       provider \in ProviderAddrs, oracle \in oracles :
        IF RecordOutcome(signal_commit, provider, oracle) # Ok THEN UNCHANGED vars
        ELSE \E outcome \in outcomes, final_price_cents \in FinalPrices,
                return_bps \in returns :
                 RecordOutcomeIx(signal_commit, provider, oracle, outcome,
                                 final_price_cents, return_bps)

\* The commit-reveal-resolve protocol of one provider (alice), with a second
\* signer (bob) who owns no provider.
Registrants == {"alice"}

Next ==
    \/ Tick
    \/ RegisterProviderAction(Registrants)
    \/ UpdateProviderAction(Keys, {NameOk}, {EndpointOk}, Prices)
    \/ CommitSignalAction(Keys, CommitHashes)
    \/ RevealSignalAction(Keys, CommitHashes, Payloads)
    \/ RecordOutcomeAction(Keys, CommitHashes, Outcomes, ReturnBps)

Spec == Init /\ [][Next]_vars

\* The reputation statistics of one provider over three signals, all
\* instructions reading the same clock value.
NextStats ==
    \/ RegisterProviderAction(Registrants)
    \/ UpdateProviderAction(Keys, {NameOk}, {EndpointOk}, Prices)
    \/ CommitSignalAction(Keys, StatsHashes)
    \/ RevealSignalAction(Keys, StatsHashes, {P0, P1, P2, PBad})
    \/ RecordOutcomeAction(Keys, StatsHashes, Outcomes, ReturnBps)

SpecStats == Init /\ [][NextStats]_vars

\* Values an update supplies: a new name, and endpoints within and beyond
\* the length accepted.
NameNew == Str("m", 3)
EndpointLong == Str("e", MaxEndpointLen + 1)

\* The digest both providers commit to, and the outcomes reported.
OwnerHashes == {Digest(P0)}
OwnerOutcomes == {0, SL_HIT}
OwnerReturns == {-7}

\* Two providers (alice and bob), each signer acting on its own accounts and
\* on the other's.
NextOwners ==
    \/ Advance(MaxTimeOwners)
    \/ RegisterProviderAction(Keys)
    \/ UpdateProviderAction(Keys, {NameNew}, {EndpointOk, EndpointLong}, Prices)
    \/ CommitSignalAction(Keys, OwnerHashes)
    \/ RevealSignalAction(Keys, OwnerHashes, {P0, P1})
    \/ RecordOutcomeAction(Keys, OwnerHashes, OwnerOutcomes, OwnerReturns)

SpecOwners == Init /\ [][NextOwners]_vars

----------------------------------------------------------------------------
(* Instructions as functions of the accounts: a call names its instruction,
   signer, accounts and arguments and carries the clock value it reads;
   executed on a store of accounts it yields a result and the store it
   leaves. *)

\* The accounts of the current state.
Store == [providers |-> providers, signal_commits |-> signal_commits]

NewCall(ix, signer, provider, signal_commit, clock) ==
    [ix |-> ix, signer |-> signer, provider |-> provider,
     signal_commit |-> signal_commit, clock |-> clock, hash |-> None, payload |-> P0,
     name |-> None, outcome |-> 0, return_bps |-> 0]

RegisterCall(signer, provider, clock) == NewCall("register", signer, provider, None, clock)

UpdateCall(signer, provider, clock, name) ==
    [NewCall("update", signer, provider, None, clock) EXCEPT !.name = name]

CommitCall(signer, provider, clock, h) ==
    [NewCall("commit", signer, provider, SignalPda(provider, h), clock) EXCEPT !.hash = h]

RevealCall(signer, provider, clock, h, P) ==
    [NewCall("reveal", signer, provider, SignalPda(provider, h), clock)
        EXCEPT !.payload = P]

ResolveCall(signer, provider, clock, h, outcome, return_bps) ==
    [NewCall("resolve", signer, provider, SignalPda(provider, h), clock)
        EXCEPT !.outcome = outcome, !.return_bps = return_bps]

\* Account validation of call c against store S.
AccountsOn(S, c) ==
    LET hasProvider == c.provider \in DOMAIN S.providers
        hasSignal == c.signal_commit \in DOMAIN S.signal_commits
        signerOwns ==
            IF c.provider # ProviderPda(c.signer) THEN "ConstraintSeeds"
            ELSE IF S.providers[c.provider].authority # c.signer THEN "ConstraintHasOne"
            ELSE Ok
    IN CASE c.ix = "register" ->
                IF c.provider # ProviderPda(c.signer) THEN "ConstraintSeeds"
                ELSE IF hasProvider THEN "AccountAlreadyInUse"
                ELSE Ok
         [] c.ix = "update" ->
                IF ~hasProvider THEN "AccountNotInitialized" ELSE signerOwns
         [] c.ix = "commit" ->
                IF ~hasProvider THEN "AccountNotInitialized"
                ELSE IF c.signal_commit # SignalPda(c.provider, c.hash) THEN "ConstraintSeeds"
                ELSE IF hasSignal THEN "AccountAlreadyInUse"
                ELSE signerOwns
         [] c.ix = "reveal" ->
                IF ~hasSignal \/ ~hasProvider THEN "AccountNotInitialized"
                ELSE IF c.signal_commit #
                            SignalPda(c.provider, S.signal_commits[c.signal_commit].signal_hash)
                     THEN "ConstraintSeeds"
                ELSE signerOwns
         [] c.ix = "resolve" ->
                IF ~hasSignal \/ ~hasProvider THEN "AccountNotInitialized"
                ELSE IF c.signal_commit #
                            SignalPda(c.provider, S.signal_commits[c.signal_commit].signal_hash)
                     THEN "ConstraintSeeds"
                ELSE IF S.signal_commits[c.signal_commit].provider # c.provider
                     THEN "ConstraintRaw"
                ELSE Ok

\* What the handler of call c returns on the accounts of store S.
HandlerOn(S, c) ==
    CASE c.ix = "register" ->
             register_provider(c.signer, c.provider, c.clock, NameOk, EndpointOk,
                               <<1, 2>>, 1000000)
      [] c.ix = "update" ->
             update_provider(S.providers[c.provider], c.clock, c.name, None, None)
      [] c.ix = "commit" -> commit_signal(c.provider, c.clock, c.hash)
      [] c.ix = "reveal" ->
             reveal_signal(S.signal_commits[c.signal_commit], c.clock, c.payload.token,
                           c.payload.direction, c.payload.entry_cents,
                           c.payload.tp_cents, c.payload.sl_cents,
                           c.payload.timeframe_hours, c.payload.confidence)
      [] c.ix = "resolve" ->
             record_outcome(S.signal_commits[c.signal_commit], S.providers[c.provider],
                            c.provider, c.clock, c.outcome, 6700000, c.return_bps)

\* Store S with the accounts call c writes replaced by those its handler
\* returned in r.
Written(S, c, r) ==
    [providers |->
         IF c.ix \in {"register", "update", "resolve"}
         THEN Put(S.providers, c.provider, r.provider) ELSE S.providers,
     signal_commits |->
         IF c.ix \in {"commit", "reveal", "resolve"}
         THEN Put(S.signal_commits, c.signal_commit, r.commit) ELSE S.signal_commits]

\* Call c executed on store S: a call that is refused or fails leaves S.
Exec(S, c) ==
    IF AccountsOn(S, c) # Ok THEN [store |-> S, result |-> AccountsOn(S, c)]
    ELSE LET r == HandlerOn(S, c)
         IN IF r.result # Ok THEN [store |-> S, result |-> r.result]
            ELSE [store |-> Written(S, c, r), result |-> Ok]

\* Calls c then d executed on store S: the store left and the two results.
ExecBoth(S, c, d) ==
    LET first == Exec(S, c)
        second == Exec(first.store, d)
    IN [store |-> second.store, result |-> [c |-> first.result, d |-> second.result]]

\* The instruction of the program that call c is, in the current state.
TxOf(c) ==
    CASE c.ix = "register" ->
             RegisterProviderTx(c.provider, c.signer, NameOk, EndpointOk, <<1, 2>>, 1000000)
      [] c.ix = "update" -> UpdateProviderTx(c.provider, c.signer, c.name, None, None)
      [] c.ix = "commit" -> CommitSignalTx(c.signal_commit, c.provider, c.signer, c.hash)
      [] c.ix = "reveal" -> RevealSignalTx(c.signal_commit, c.provider, c.signer, c.payload)
      [] c.ix = "resolve" ->
             RecordOutcomeTx(c.signal_commit, c.provider, c.signer, c.outcome, 6700000,
                             c.return_bps)

\* Two providers with two commitments each, all instructions reading the
\* same clock value.
OrderHashes == {Digest(P0), Digest(P1)}
OrderOutcomes == {0, TP_HIT, SL_HIT}
OrderReturns == {-7, 5}

NextOrder ==
    \/ RegisterProviderAction(Keys)
    \/ UpdateProviderAction(Keys, {NameOk}, {EndpointOk}, Prices)
    \/ CommitSignalAction(Keys, OrderHashes)
    \/ RevealSignalAction(Keys, OrderHashes, {P0, P1})
    \/ RecordOutcomeAction(Keys, OrderHashes, {SL_HIT}, {-7})

SpecOrder == Init /\ [][NextOrder]_vars

----------------------------------------------------------------------------
(* Vocabulary of the properties *)

Commit(a) == signal_commits[a]

\* The provider account a commitment names, and its owner.
ProviderOf(a) == providers[Commit(a).provider]
OwnerOf(a) == ProviderOf(a).authority

\* A commitment is Committed (not yet revealed), Revealed or Resolved.
Committed(a) == IsSignal(a) /\ ~Commit(a).revealed
Revealed(a) == IsSignal(a) /\ Commit(a).revealed
Resolved(a) == IsSignal(a) /\ Commit(a).outcome_recorded

\* The bounds the spec puts on a reveal payload.
InBounds(P) ==
    /\ Len(P.token) <= 16
    /\ P.direction \in {0, 1}
    /\ P.timeframe_hours \in 1..72
    /\ P.confidence \in 0..100

PayloadFields == {"token", "direction", "entry_cents", "tp_cents", "sl_cents",
                  "timeframe_hours", "confidence"}

\* P and Q differ in exactly one field.
DiffersInOneField(P, Q) == Cardinality({f \in PayloadFields : P[f] # Q[f]}) = 1

\* What reveal returns when the owner of commitment a calls it with payload P.
OwnerReveal(a, P) == RevealSignalTx(a, Commit(a).provider, OwnerOf(a), P).result

Unauthorized == AccountErrors

----------------------------------------------------------------------------
(* Properties *)

\* C1: in every reachable state, the payload stored in a revealed
\* SignalCommit encodes to a byte string whose digest is that commitment's
\* signal_hash.
C1_RevealedPayloadMatchesHash ==
    \A a \in DOMAIN signal_commits :
        Commit(a).revealed => Digest(StoredPayload(Commit(a))) = Commit(a).signal_hash

C1_Witness ==
    \E a \in DOMAIN signal_commits :
        /\ Commit(a).revealed
        /\ StoredPayload(Commit(a)) = P0
        /\ Commit(a).signal_hash = Digest(P0)

\* C2, payload bounds not assumed: for a Committed commitment, every payload whose digest is
\* the signal_hash is accepted from the owner, and every payload differing
\* from it in one field is refused with HashMismatch.
C2_Original ==
    \A a \in DOMAIN signal_commits : \A P \in Payloads :
        (Committed(a) /\ Digest(P) = Commit(a).signal_hash) =>
            /\ OwnerReveal(a, P) = Ok
            /\ \A Q \in Payloads :
                   DiffersInOneField(P, Q) => OwnerReveal(a, Q) = "HashMismatch"

\* C2, payload bounds assumed: for a Committed commitment, every payload within the payload
\* bounds whose digest is the signal_hash is accepted from the owner; every
\* payload differing from it in one field is refused, with HashMismatch if
\* it is within the bounds and with the error of the bound it breaks if not.
C2_InBoundsRevealBinds ==
    \A a \in DOMAIN signal_commits : \A P \in Payloads :
        (Committed(a) /\ InBounds(P) /\ Digest(P) = Commit(a).signal_hash) =>
            /\ OwnerReveal(a, P) = Ok
            /\ \A Q \in Payloads :
                   DiffersInOneField(P, Q) =>
                       /\ InBounds(Q) => OwnerReveal(a, Q) = "HashMismatch"
                       /\ Len(Q.token) > 16 => OwnerReveal(a, Q) = "TokenTooLong"
                       /\ Q.direction > 1 => OwnerReveal(a, Q) = "InvalidDirection"
                       /\ Q.timeframe_hours \notin 1..72 =>
                              OwnerReveal(a, Q) = "InvalidTimeframe"
                       /\ Q.confidence > 100 => OwnerReveal(a, Q) = "InvalidConfidence"

\* A Committed commitment to P0: the owner's reveal of P0 is accepted, and
\* of the payloads differing from P0 in one field some are refused with
\* HashMismatch and some with the error of a bound.
C2_Witness ==
    \E a \in DOMAIN signal_commits :
        /\ Committed(a)
        /\ Commit(a).signal_hash = Digest(P0)
        /\ OwnerReveal(a, P0) = Ok
        /\ OwnerReveal(a, [P0 EXCEPT !.confidence = 100]) = "HashMismatch"
        /\ OwnerReveal(a, [P0 EXCEPT !.confidence = 101]) = "InvalidConfidence"

\* C3: a reveal call on a revealed commitment is never accepted, whoever
\* signs it and whatever the payload; from the owner it fails with
\* AlreadyRevealed; and no step changes the stored payload or revealed_at of
\* a revealed commitment.
C3_RevealRefused ==
    \A a \in DOMAIN signal_commits :
        Commit(a).revealed =>
            /\ \A P \in Payloads : OwnerReveal(a, P) = "AlreadyRevealed"
            /\ \A provider \in ProviderAddrs, authority \in Keys, P \in Payloads :
                   LET r == RevealSignalTx(a, provider, authority, P)
                   IN /\ r.result # Ok
                      /\ r.result \notin Unauthorized =>
                             r.result = "AlreadyRevealed" /\ r.commit = Commit(a)

C3_RevealKept ==
    \A a \in DOMAIN signal_commits :
        Commit(a).revealed =>
            /\ signal_commits'[a].revealed
            /\ StoredPayload(signal_commits'[a]) = StoredPayload(Commit(a))
            /\ signal_commits'[a].revealed_at = Commit(a).revealed_at

C3_RevealOneShot == []C3_RevealRefused /\ [][C3_RevealKept]_vars

\* A revealed commitment at a time later than its reveal.
C3_Witness ==
    \E a \in DOMAIN signal_commits :
        /\ Commit(a).revealed
        /\ now > Commit(a).revealed_at
        /\ OwnerReveal(a, P0) = "AlreadyRevealed"
        /\ OwnerReveal(a, PBad) = "AlreadyRevealed"
        /\ OwnerReveal(a, P1) = "AlreadyRevealed"

\* The counters of a provider account.
Counters(p) == <<p.total_signals, p.correct_signals, p.total_return_bps>>

\* C4: a resolve call on a Committed commitment is never accepted, whoever
\* signs it and whatever the outcome; with the commitment's own provider it
\* fails with NotRevealed, and the handler returns the provider with its
\* counters as they were.
C4_ResolveNeedsReveal ==
    \A a \in DOMAIN signal_commits :
        ~Commit(a).revealed =>
            \A provider \in ProviderAddrs, oracle \in Keys, outcome \in Outcomes,
               final_price_cents \in FinalPrices, return_bps \in ReturnBps :
                LET r == RecordOutcomeTx(a, provider, oracle, outcome,
                                         final_price_cents, return_bps)
                IN /\ r.result # Ok
                   /\ provider = Commit(a).provider =>
                          /\ r.result = "NotRevealed"
                          /\ Counters(r.provider) = Counters(providers[provider])
                          /\ r.commit = Commit(a)

\* A commitment that is not revealed, whose provider has a resolved signal
\* counted, and resolve calls on it failing with NotRevealed.
C4_Witness ==
    \E a \in DOMAIN signal_commits :
        /\ ~Commit(a).revealed
        /\ ProviderOf(a).total_signals = 1
        /\ RecordOutcomeTx(a, Commit(a).provider, "bob", TP_HIT, 6700000, 5).result
               = "NotRevealed"
        /\ RecordOutcomeTx(a, Commit(a).provider, "alice", 0, 6700000, -7).result
               = "NotRevealed"

\* C5: a resolve call on a Resolved commitment is never accepted; with the
\* commitment's own provider it fails with OutcomeAlreadyRecorded and the
\* handler returns the provider with its counters as they were; and no step
\* changes the counters of a provider unless one of its commitments goes
\* from unresolved to resolved in that step.
C5_ResolveRefused ==
    \A a \in DOMAIN signal_commits :
        Commit(a).outcome_recorded =>
            \A provider \in ProviderAddrs, oracle \in Keys, outcome \in Outcomes,
               final_price_cents \in FinalPrices, return_bps \in ReturnBps :
                LET r == RecordOutcomeTx(a, provider, oracle, outcome,
                                         final_price_cents, return_bps)
                IN /\ r.result # Ok
                   /\ provider = Commit(a).provider =>
                          /\ r.result = "OutcomeAlreadyRecorded"
                          /\ Counters(r.provider) = Counters(providers[provider])
                          /\ r.commit = Commit(a)

C5_NoDoubleCount ==
    \A p \in DOMAIN providers :
        Counters(providers'[p]) # Counters(providers[p]) =>
            \E a \in DOMAIN signal_commits :
                /\ Commit(a).provider = p
                /\ ~Commit(a).outcome_recorded
                /\ signal_commits'[a].outcome_recorded

C5_ResolveOneShot == []C5_ResolveRefused /\ [][C5_NoDoubleCount]_vars

\* A Resolved commitment whose provider has counted it once, and a second
\* resolve call failing with OutcomeAlreadyRecorded.
C5_Witness ==
    \E a \in DOMAIN signal_commits :
        /\ Commit(a).outcome_recorded
        /\ Commit(a).outcome = SL_HIT
        /\ ProviderOf(a).total_signals = 1
        /\ RecordOutcomeTx(a, Commit(a).provider, "bob", TP_HIT, 6700000, 5).result
               = "OutcomeAlreadyRecorded"

\* C6: every accepted resolve stores the outcome and return it was given and
\* the was_correct they determine: true for TP_HIT, false for SL_HIT, and
\* return_bps > 0 for EXPIRED; and every Resolved commitment stores a
\* was_correct that agrees with its stored outcome and return_bps.
C6_OutcomeClassification ==
    /\ \A a \in DOMAIN signal_commits :
           Commit(a).outcome_recorded =>
               /\ Commit(a).outcome = 1 => Commit(a).was_correct
               /\ Commit(a).outcome = 2 => ~Commit(a).was_correct
               /\ Commit(a).outcome = 3 =>
                      (Commit(a).was_correct <=> Commit(a).return_bps > 0)
               /\ Commit(a).outcome \in {1, 2, 3}
    /\ \A a \in DOMAIN signal_commits, oracle \in Keys, outcome \in Outcomes,
          final_price_cents \in FinalPrices, return_bps \in ReturnBps :
           LET r == RecordOutcomeTx(a, Commit(a).provider, oracle, outcome,
                                    final_price_cents, return_bps)
           IN r.result = Ok =>
                  /\ r.commit.outcome = outcome
                  /\ r.commit.return_bps = return_bps
                  /\ outcome = 1 => r.commit.was_correct
                  /\ outcome = 2 => ~r.commit.was_correct
                  /\ outcome = 3 => (r.commit.was_correct <=> return_bps > 0)

\* A commitment resolved as EXPIRED with a return of zero: not correct.
C6_Witness ==
    \E a \in DOMAIN signal_commits :
        /\ Commit(a).outcome_recorded
        /\ Commit(a).outcome = EXPIRED
        /\ Commit(a).return_bps = 0
        /\ ~Commit(a).was_correct

\* The commitments of provider p that are resolved.
ResolvedOf(p) ==
    {a \in DOMAIN signal_commits : Commit(a).provider = p /\ Commit(a).outcome_recorded}

\* The commitments that go from unresolved to resolved in a step.
NewlyResolved ==
    {a \in DOMAIN signal_commits :
        ~Commit(a).outcome_recorded /\ signal_commits'[a].outcome_recorded}

\* C7: a step that resolves a commitment sets its outcome, final_price,
\* was_correct, return_bps and evaluated_at and, in the same step, adds 1 to
\* its provider's total_signals, 1 or 0 to correct_signals as was_correct
\* says, and return_bps to total_return_bps; a step that changes a
\* provider's counters resolves exactly one of its commitments; and in every
\* state total_signals is the number of the provider's resolved commitments.
C7_ResolveStep ==
    /\ \A a \in NewlyResolved :
           LET c == signal_commits'[a]
               p == providers[Commit(a).provider]
               q == providers'[Commit(a).provider]
           IN /\ c.outcome \in {TP_HIT, SL_HIT, EXPIRED}
              /\ c.final_price_cents \in FinalPrices
              /\ c.return_bps \in ReturnBps
              /\ c.evaluated_at = now
              /\ c = [Commit(a) EXCEPT !.outcome_recorded = TRUE,
                                       !.outcome = c.outcome,
                                       !.final_price_cents = c.final_price_cents,
                                       !.was_correct = c.was_correct,
                                       !.return_bps = c.return_bps,
                                       !.evaluated_at = c.evaluated_at]
              /\ q.total_signals = p.total_signals + 1
              /\ q.correct_signals = p.correct_signals + (IF c.was_correct THEN 1 ELSE 0)
              /\ q.total_return_bps = p.total_return_bps + c.return_bps
              /\ q.updated_at = now
    /\ \A p \in DOMAIN providers :
           Counters(providers'[p]) # Counters(providers[p]) =>
               Cardinality({a \in NewlyResolved : Commit(a).provider = p}) = 1

C7_CountersMatchResolved ==
    \A p \in DOMAIN providers :
        providers[p].total_signals = Cardinality(ResolvedOf(p))

C7_ResolveAtomic == []C7_CountersMatchResolved /\ [][C7_ResolveStep]_vars

\* A provider with two signals counted, one correct with a positive return
\* and one wrong with a negative return.
C7_Witness ==
    \E p \in DOMAIN providers :
        /\ providers[p].total_signals = 2
        /\ providers[p].correct_signals = 1
        /\ providers[p].total_return_bps = -2
        /\ \E a, b \in ResolvedOf(p) :
               /\ Commit(a).was_correct /\ Commit(a).return_bps = 5
               /\ ~Commit(b).was_correct /\ Commit(b).return_bps = -7

\* C8: in every reachable state, no provider has more correct signals than
\* signals.
C8_CorrectAtMostTotal ==
    \A p \in DOMAIN providers :
        providers[p].correct_signals <= providers[p].total_signals

\* A provider with some but not all of its signals correct.
C8_Witness ==
    \E p \in DOMAIN providers :
        /\ providers[p].correct_signals = 2
        /\ providers[p].total_signals = 3

Abs(x) == IF x < 0 THEN -x ELSE x

\* q is n / d rounded down, for n >= 0 and d > 0.
IsFloorOf(q, n, d) == q * d <= n /\ n < (q + 1) * d

\* q is n / d truncated toward zero, for d > 0.
IsTruncOf(q, n, d) ==
    /\ IsFloorOf(Abs(q), Abs(n), d)
    /\ q > 0 => n > 0
    /\ q < 0 => n < 0

\* C9: for every provider in every reachable state, hit_rate_bps() is 0 when
\* total_signals is 0 and otherwise correct_signals * 10000 / total_signals
\* rounded down, and avg_return_bps() is 0 when total_signals is 0 and
\* otherwise total_return_bps / total_signals truncated toward zero.
C9_DerivedStatistics ==
    \A p \in DOMAIN providers :
        LET self == providers[p]
        IN IF self.total_signals = 0
           THEN hit_rate_bps(self) = 0 /\ avg_return_bps(self) = 0
           ELSE /\ IsFloorOf(hit_rate_bps(self), self.correct_signals * 10000,
                             self.total_signals)
                /\ IsTruncOf(avg_return_bps(self), self.total_return_bps,
                             self.total_signals)

\* A provider whose two quotients are both inexact, the average negative:
\* 1 of 3 correct is 3333 bps, and -7 / 3 is -2.
C9_Witness ==
    \E p \in DOMAIN providers :
        /\ providers[p].total_signals = 3
        /\ providers[p].correct_signals = 1
        /\ providers[p].total_return_bps = -7
        /\ hit_rate_bps(providers[p]) = 3333
        /\ avg_return_bps(providers[p]) = -2

\* The signers whose resolve call some commitment would accept now.
AcceptedOracles ==
    {oracle \in Keys :
        \E a \in DOMAIN signal_commits, outcome \in Outcomes,
           final_price_cents \in FinalPrices, return_bps \in ReturnBps :
            RecordOutcomeTx(a, Commit(a).provider, oracle, outcome, final_price_cents,
                            return_bps).result = Ok}

\* C10: resolve is accepted from the designated reporter only: in no state
\* are the resolve calls of two different signers accepted, and a resolve
\* call signed by the owner of the commitment's provider is never accepted.
C10_ReporterOnly ==
    /\ Cardinality(AcceptedOracles) <= 1
    /\ \A a \in DOMAIN signal_commits : OwnerOf(a) \notin AcceptedOracles

\* The refusal a register meets when the owner's Provider account exists
\* (IdentityAlreadyRegistered), and a commit when the SignalCommit account
\* of that provider and digest exists (DuplicateCommitment): the init of an
\* account at an address already in use.
IdentityAlreadyRegistered == "AccountAlreadyInUse"
DuplicateCommitment == "AccountAlreadyInUse"

\* C11: a register by an owner who has a Provider fails with
\* IdentityAlreadyRegistered whatever its arguments; a register with
\* arguments within the size limits by an owner who has none is accepted and
\* creates a Provider with total_signals, correct_signals, total_return_bps
\* and hit_rate_bps() all 0; no owner has two Providers; and no register
\* step changes a Provider that exists.
C11_RegisterCall ==
    \A authority \in Keys, name \in RegisterNames, endpoint \in RegisterEndpoints,
       categories \in RegisterCategories, price_lamports \in Prices :
        LET r == RegisterProviderTx(ProviderPda(authority), authority, name, endpoint,
                                    categories, price_lamports)
        IN IF IsProvider(ProviderPda(authority))
           THEN r.result = IdentityAlreadyRegistered
           ELSE (Len(name) <= 64 /\ Len(endpoint) <= 256 /\ Len(categories) <= 8) =>
                    /\ r.result = Ok
                    /\ r.provider.authority = authority
                    /\ Counters(r.provider) = <<0, 0, 0>>
                    /\ hit_rate_bps(r.provider) = 0
                    /\ r.provider.created_at = now

C11_OnePerOwner ==
    \A p, q \in DOMAIN providers :
        providers[p].authority = providers[q].authority => p = q

C11_RegisterKeeps ==
    RegisterProviderAction(Keys) =>
        \A p \in DOMAIN providers : providers'[p] = providers[p]

C11_RegisterOnce == [](C11_RegisterCall /\ C11_OnePerOwner) /\ [][C11_RegisterKeeps]_vars

\* alice's Provider has counted a signal and been renamed, at a time later
\* than its creation: her second register is refused, bob's first accepted.
C11_Witness ==
    /\ IsProvider(ProviderPda("alice")) /\ ~IsProvider(ProviderPda("bob"))
    /\ providers[ProviderPda("alice")].total_signals = 1
    /\ providers[ProviderPda("alice")].name = NameNew
    /\ now > providers[ProviderPda("alice")].created_at
    /\ RegisterProviderTx(ProviderPda("alice"), "alice", NameOk, EndpointOk, <<1, 2>>,
                          1000000).result = IdentityAlreadyRegistered
    /\ RegisterProviderTx(ProviderPda("bob"), "bob", NameOk, EndpointOk, <<1, 2>>,
                          1000000).result = Ok

\* Provider p has a SignalCommit for digest h.
HasCommitment(p, h) ==
    \E a \in DOMAIN signal_commits :
        Commit(a).provider = p /\ Commit(a).signal_hash = h

\* C12: a commit of digest h by the owner of a Provider fails with
\* DuplicateCommitment exactly when that provider has a SignalCommit for h,
\* whoever else has one for h; otherwise it is accepted and creates the
\* record of that provider and digest with revealed and outcome_recorded
\* false and committed_at the current time; and no commit step changes a
\* SignalCommit that exists.
C12_CommitCall ==
    \A p \in DOMAIN providers, h \in OwnerHashes \cup {Digest(P1)} :
        LET r == CommitSignalTx(SignalPda(p, h), p, providers[p].authority, h)
        IN /\ r.result = DuplicateCommitment <=> HasCommitment(p, h)
           /\ ~HasCommitment(p, h) =>
                  /\ r.result = Ok
                  /\ r.commit.provider = p /\ r.commit.signal_hash = h
                  /\ ~r.commit.revealed /\ ~r.commit.outcome_recorded
                  /\ r.commit.committed_at = now

C12_CommitKeeps ==
    CommitSignalAction(Keys, OwnerHashes) =>
        \A a \in DOMAIN signal_commits : signal_commits'[a] = signal_commits[a]

C12_CommitOnce == []C12_CommitCall /\ [][C12_CommitKeeps]_vars

\* alice's commitment to a digest is Resolved: her commit of that digest is
\* refused, bob's commit of the same digest is accepted.
C12_Witness ==
    LET alice == ProviderPda("alice")
        bob == ProviderPda("bob")
        h == Digest(P0)
    IN /\ IsProvider(alice) /\ IsProvider(bob)
       /\ Resolved(SignalPda(alice, h))
       /\ ~HasCommitment(bob, h)
       /\ CommitSignalTx(SignalPda(alice, h), alice, "alice", h).result = DuplicateCommitment
       /\ CommitSignalTx(SignalPda(bob, h), bob, "bob", h).result = Ok

\* authority is the owner of the Provider account at address provider.
Owns(authority, provider) ==
    IsProvider(provider) /\ providers[provider].authority = authority

\* The arguments an update may carry.
UpdateNames == {None, Some(NameNew)}
UpdateEndpoints == {None, Some(EndpointOk), Some(EndpointLong)}
UpdatePrices == {None, Some(1000000)}

\* C13: an update of a Provider, a commit under it and a reveal of one of
\* its SignalCommits are accepted only from the owner of that Provider; from
\* any other signer, with or without a Provider of its own, they are
\* refused as unauthorized whatever accounts and arguments the signer hands
\* in, and the refused instruction changes no account.
C13_UpdateOwnerOnly ==
    \A provider \in ProviderAddrs, authority \in Keys, name \in UpdateNames,
       endpoint \in UpdateEndpoints, price_lamports \in UpdatePrices :
        LET r == UpdateProviderTx(provider, authority, name, endpoint, price_lamports)
        IN /\ r.result = Ok => Owns(authority, provider)
           /\ ~Owns(authority, provider) => r.result \in Unauthorized
           /\ Owns(authority, provider) => r.result \notin Unauthorized

C13_CommitOwnerOnly ==
    \A provider \in ProviderAddrs, authority \in Keys, h \in OwnerHashes,
       signal_commit \in SignalAddrs(OwnerHashes) :
        LET r == CommitSignalTx(signal_commit, provider, authority, h)
        IN /\ r.result = Ok => Owns(authority, provider) /\ r.commit.provider = provider
           /\ ~Owns(authority, provider) => r.result \in Unauthorized

C13_RevealOwnerOnly ==
    \A a \in DOMAIN signal_commits, provider \in ProviderAddrs, authority \in Keys,
       P \in {P0, P1} :
        LET r == RevealSignalTx(a, provider, authority, P)
        IN /\ r.result = Ok => authority = OwnerOf(a) /\ provider = Commit(a).provider
           /\ authority # OwnerOf(a) => r.result \in Unauthorized
           /\ (authority = OwnerOf(a) /\ provider = Commit(a).provider) =>
                  r.result \notin Unauthorized

C13_RefusedKeeps ==
    \/ UNCHANGED <<providers, signal_commits>>
    \/ \A provider \in ProviderAddrs, authority \in Keys :
           ~Owns(authority, provider) =>
               /\ \A name \in UpdateNames, endpoint \in UpdateEndpoints,
                     price_lamports \in UpdatePrices :
                      UpdateProviderIx(provider, authority, name, endpoint, price_lamports)
                          => UNCHANGED <<providers, signal_commits>>
               /\ \A h \in OwnerHashes, signal_commit \in SignalAddrs(OwnerHashes) :
                      CommitSignalIx(signal_commit, provider, authority, h)
                          => UNCHANGED <<providers, signal_commits>>
               /\ \A a \in SignalAddrs(OwnerHashes), P \in {P0, P1} :
                      RevealSignalIx(a, provider, authority, P)
                          => UNCHANGED <<providers, signal_commits>>

C13_OwnerOnly ==
    /\ [](C13_UpdateOwnerOnly /\ C13_CommitOwnerOnly /\ C13_RevealOwnerOnly)
    /\ [][C13_RefusedKeeps]_vars

\* alice and bob have each committed to the digest of P0, neither has
\* revealed: alice's reveal of her commitment with P0 is accepted, bob's
\* reveal of it is refused whichever Provider account he names.
C13_Witness ==
    LET alice == ProviderPda("alice")
        bob == ProviderPda("bob")
        a == SignalPda(alice, Digest(P0))
        b == SignalPda(bob, Digest(P0))
    IN /\ Committed(a) /\ Committed(b)
       /\ RevealSignalTx(a, alice, "alice", P0).result = Ok
       /\ RevealSignalTx(a, alice, "bob", P0).result \in Unauthorized
       /\ RevealSignalTx(a, bob, "bob", P0).result \in Unauthorized
       /\ UpdateProviderTx(alice, "bob", Some(NameNew), None, None).result \in Unauthorized
       /\ CommitSignalTx(SignalPda(alice, Digest(P1)), alice, "bob", Digest(P1)).result
              \in Unauthorized

\* C14: in every step and for every SignalCommit, the account stays, revealed
\* does not go from true to false, outcome_recorded does not go from true
\* to false, outcome_recorded is not true after a step before which revealed
\* was false, and a Resolved commitment keeps every field.
C14_PhaseStep ==
    \A a \in DOMAIN signal_commits :
        /\ a \in DOMAIN signal_commits'
        /\ Commit(a).revealed => signal_commits'[a].revealed
        /\ Commit(a).outcome_recorded => signal_commits'[a].outcome_recorded
        /\ ~Commit(a).revealed => ~signal_commits'[a].outcome_recorded
        /\ Commit(a).outcome_recorded => signal_commits'[a] = Commit(a)

C14_PhaseOrder == [][C14_PhaseStep]_vars

\* A commitment that went through the three phases at three different times.
C14_Witness ==
    \E a \in DOMAIN signal_commits :
        /\ Resolved(a) /\ Revealed(a)
        /\ Commit(a).committed_at < Commit(a).revealed_at
        /\ Commit(a).revealed_at < Commit(a).evaluated_at

\* The resolution payload stored in a SignalCommit account.
StoredOutcome(c) ==
    [outcome |-> c.outcome, final_price_cents |-> c.final_price_cents,
     was_correct |-> c.was_correct, return_bps |-> c.return_bps]

\* C15: in every reachable state and for every SignalCommit, outcome_recorded
\* implies revealed; while revealed is false the reveal payload and
\* revealed_at hold the zero values of a new account, and once it is true
\* they hold a payload within the bounds (so not the zero payload) and the
\* time of a reveal; while outcome_recorded is false the resolution payload
\* and evaluated_at hold the zero values of a new account, and once it is
\* true they hold one of the three outcomes and the time of a resolve.
C15_FieldsFollowFlags ==
    \A a \in DOMAIN signal_commits :
        LET c == Commit(a)
        IN /\ c.outcome_recorded => c.revealed
           /\ ~c.revealed =>
                  /\ StoredPayload(c) = StoredPayload(ZeroSignalCommit)
                  /\ c.revealed_at = 0
           /\ c.revealed =>
                  /\ InBounds(StoredPayload(c))
                  /\ StoredPayload(c) # StoredPayload(ZeroSignalCommit)
                  /\ c.revealed_at \in c.committed_at..now
                  /\ c.revealed_at # 0
           /\ ~c.outcome_recorded =>
                  /\ StoredOutcome(c) = StoredOutcome(ZeroSignalCommit)
                  /\ c.evaluated_at = 0
           /\ c.outcome_recorded =>
                  /\ c.outcome \in {TP_HIT, SL_HIT, EXPIRED}
                  /\ StoredOutcome(c) # StoredOutcome(ZeroSignalCommit)
                  /\ c.evaluated_at \in c.revealed_at..now
                  /\ c.evaluated_at # 0

\* One provider with a commitment in each phase.
C15_Witness ==
    \E a, b, c \in DOMAIN signal_commits :
        /\ Committed(a)
        /\ Revealed(b) /\ ~Resolved(b)
        /\ Resolved(c) /\ Commit(c).outcome = EXPIRED /\ Commit(c).return_bps = 0

RevealErrors == {"AlreadyRevealed", "TokenTooLong", "InvalidDirection",
                 "InvalidTimeframe", "InvalidConfidence", "HashMismatch"}
OutcomeErrors == {"NotRevealed", "OutcomeAlreadyRecorded", "InvalidOutcome"}

\* C16: a reveal or resolve call that is not accepted fails with one of the
\* errors of its guards or as unauthorized, emits no event, has written
\* nothing to the SignalCommit or the Provider when its handler returns the
\* error, and as a step leaves every account as it was.
C16_RevealFails ==
    \A a \in DOMAIN signal_commits, provider \in ProviderAddrs, authority \in Keys,
       P \in Payloads :
        LET r == RevealSignalTx(a, provider, authority, P)
        IN r.result # Ok =>
               /\ r.result \in RevealErrors \cup Unauthorized
               /\ r.events = <<>>
               /\ r.result \in RevealErrors => r.commit = Commit(a)

C16_ResolveFails ==
    \A a \in DOMAIN signal_commits, provider \in ProviderAddrs, oracle \in Keys,
       outcome \in Outcomes, final_price_cents \in FinalPrices, return_bps \in ReturnBps :
        LET r == RecordOutcomeTx(a, provider, oracle, outcome, final_price_cents,
                                 return_bps)
        IN r.result # Ok =>
               /\ r.result \in OutcomeErrors \cup Unauthorized
               /\ r.events = <<>>
               /\ r.result \in OutcomeErrors =>
                      r.commit = Commit(a) /\ r.provider = providers[provider]

C16_FailedKeeps ==
    \/ UNCHANGED <<providers, signal_commits>>
    \/ /\ \A a \in DOMAIN signal_commits, provider \in ProviderAddrs,
             authority \in Keys, P \in Payloads :
              RevealSignalTx(a, provider, authority, P).result # Ok =>
                  ~RevealSignalIx(a, provider, authority, P)
       /\ \A a \in DOMAIN signal_commits, provider \in ProviderAddrs, oracle \in Keys,
             outcome \in Outcomes, final_price_cents \in FinalPrices,
             return_bps \in ReturnBps :
              RecordOutcomeTx(a, provider, oracle, outcome, final_price_cents,
                              return_bps).result # Ok =>
                  ~RecordOutcomeIx(a, provider, oracle, outcome, final_price_cents,
                                   return_bps)

C16_NoPartialTransition ==
    /\ [](C16_RevealFails /\ C16_ResolveFails)
    /\ [][C16_FailedKeeps]_vars

\* A Revealed commitment and a Committed one: reveal and resolve calls on
\* them that fail each guard.
C16_Witness ==
    \E a, b \in DOMAIN signal_commits :
        /\ Revealed(a) /\ ~Resolved(a) /\ Committed(b)
        /\ OwnerReveal(a, P0) = "AlreadyRevealed"
        /\ RecordOutcomeTx(a, Commit(a).provider, "bob", 4, 6700000, 5).result
               = "InvalidOutcome"
        /\ OwnerReveal(b, P0) = "HashMismatch"
        /\ OwnerReveal(b, PBad) = "InvalidTimeframe"
        /\ OwnerReveal(b, [P0 EXCEPT !.direction = 2]) = "InvalidDirection"
        /\ RevealSignalTx(b, Commit(b).provider, "bob", P0).result \in Unauthorized
        /\ RecordOutcomeTx(b, Commit(b).provider, "bob", 1, 6700000, 5).result
               = "NotRevealed"

\* C17: an update by the owner that supplies a name of at most 64 characters
\* and an endpoint of more than 256 fails with EndpointTooLong, the handler
\* having assigned the name by then; and the step of that failed update
\* leaves the Provider's name, endpoint, price and updated_at (every
\* account) as they were.
C17_UpdateFails ==
    \A p \in DOMAIN providers, price_lamports \in UpdatePrices :
        LET r == UpdateProviderTx(p, providers[p].authority, Some(NameNew),
                                  Some(EndpointLong), price_lamports)
        IN /\ Len(NameNew) <= 64 /\ Len(EndpointLong) > 256
           /\ r.result = "EndpointTooLong"
           /\ r.provider.name = NameNew

C17_FailedUpdateKeeps ==
    \/ UNCHANGED providers
    \/ \A p \in DOMAIN providers, price_lamports \in UpdatePrices :
           ~UpdateProviderIx(p, providers[p].authority, Some(NameNew),
                             Some(EndpointLong), price_lamports)

C17_UpdateNoPartialEffect == []C17_UpdateFails /\ [][C17_FailedUpdateKeeps]_vars

\* A Provider that still has the name it registered with, at a time later
\* than its last update: the failing update would change name and
\* updated_at if its writes were kept.
C17_Witness ==
    \E p \in DOMAIN providers :
        /\ providers[p].name = NameOk
        /\ now > providers[p].updated_at
        /\ UpdateProviderTx(p, providers[p].authority, Some(NameNew), Some(EndpointLong),
                            Some(1000000)).result = "EndpointTooLong"
        /\ UpdateProviderTx(p, providers[p].authority, Some(NameNew), Some(EndpointLong),
                            Some(1000000)).provider.name = NameNew

\* No provider that exists has its counters changed by the step.
CountersKept ==
    \A p \in DOMAIN providers :
        p \in DOMAIN providers' /\ Counters(providers'[p]) = Counters(providers[p])

\* C18: a register, update, commit or reveal step, accepted or refused,
\* leaves total_signals, correct_signals and total_return_bps of every
\* provider that exists as they were; a step that changes them is an
\* accepted resolve of a commitment of that provider.
C18_OnlyResolveCounts ==
    \/ CountersKept
    \/ /\ ~RegisterProviderAction(Keys)
       /\ ~UpdateProviderAction(Keys, {NameNew}, {EndpointOk, EndpointLong}, Prices)
       /\ ~CommitSignalAction(Keys, OwnerHashes)
       /\ ~RevealSignalAction(Keys, OwnerHashes, {P0, P1})
       /\ \A p \in DOMAIN providers :
              Counters(providers'[p]) # Counters(providers[p]) =>
                  \E a \in DOMAIN signal_commits, oracle \in Keys,
                     outcome \in OwnerOutcomes, final_price_cents \in FinalPrices,
                     return_bps \in OwnerReturns :
                      /\ RecordOutcomeTx(a, p, oracle, outcome, final_price_cents,
                                         return_bps).result = Ok
                      /\ RecordOutcomeIx(a, p, oracle, outcome, final_price_cents,
                                         return_bps)

C18_CountersFrame == [][C18_OnlyResolveCounts]_vars

\* alice's Provider has counted a signal and has been renamed, and bob has
\* registered, committed and revealed.
C18_Witness ==
    LET alice == ProviderPda("alice")
        bob == ProviderPda("bob")
    IN /\ IsProvider(alice) /\ IsProvider(bob)
       /\ Counters(providers[alice]) = <<1, 0, -7>>
       /\ providers[alice].name = NameNew
       /\ Counters(providers[bob]) = <<0, 0, 0>>
       /\ Revealed(SignalPda(bob, Digest(P0)))

\* Values of the fields no event carries.
EventCategories == {<<1, 2>>, <<3>>}
EventPrices == {1000000, 2000000}
EventFinalPrices == {6700000, 6800000}

\* C19: every accepted register, update, commit, reveal and resolve emits
\* exactly one event, and the event determines what the instruction wrote:
\* two accepted calls of an instruction on the same accounts that emit the
\* same event leave the same Provider and the same SignalCommit.
C19_OneEventEach ==
    /\ \A authority \in Keys, categories \in EventCategories, price_lamports \in EventPrices :
           LET r == RegisterProviderTx(ProviderPda(authority), authority, NameOk,
                                       EndpointOk, categories, price_lamports)
           IN r.result = Ok => Len(r.events) = 1
    /\ \A p \in DOMAIN providers, name \in UpdateNames, endpoint \in UpdateEndpoints,
          price_lamports \in UpdatePrices :
           LET r == UpdateProviderTx(p, providers[p].authority, name, endpoint,
                                     price_lamports)
           IN r.result = Ok => Len(r.events) = 1
    /\ \A p \in DOMAIN providers, h \in OwnerHashes :
           LET r == CommitSignalTx(SignalPda(p, h), p, providers[p].authority, h)
           IN r.result = Ok => Len(r.events) = 1
    /\ \A a \in DOMAIN signal_commits, P \in {P0, P1} :
           LET r == RevealSignalTx(a, Commit(a).provider, OwnerOf(a), P)
           IN r.result = Ok => Len(r.events) = 1
    /\ \A a \in DOMAIN signal_commits, oracle \in Keys, outcome \in Outcomes,
          final_price_cents \in EventFinalPrices, return_bps \in ReturnBps :
           LET r == RecordOutcomeTx(a, Commit(a).provider, oracle, outcome,
                                    final_price_cents, return_bps)
           IN r.result = Ok => Len(r.events) = 1

C19_EventDeterminesState ==
    /\ \A authority \in Keys, c1, c2 \in EventCategories, p1, p2 \in EventPrices :
           LET r1 == RegisterProviderTx(ProviderPda(authority), authority, NameOk,
                                        EndpointOk, c1, p1)
               r2 == RegisterProviderTx(ProviderPda(authority), authority, NameOk,
                                        EndpointOk, c2, p2)
           IN (r1.result = Ok /\ r2.result = Ok /\ r1.events = r2.events) =>
                  r1.provider = r2.provider
    /\ \A a \in DOMAIN signal_commits, oracle \in Keys, outcome \in Outcomes,
          f1, f2 \in EventFinalPrices, return_bps \in ReturnBps :
           LET r1 == RecordOutcomeTx(a, Commit(a).provider, oracle, outcome, f1, return_bps)
               r2 == RecordOutcomeTx(a, Commit(a).provider, oracle, outcome, f2, return_bps)
           IN (r1.result = Ok /\ r2.result = Ok /\ r1.events = r2.events) =>
                  r1.commit = r2.commit /\ r1.provider = r2.provider

C19_EventsReconstructState == C19_OneEventEach /\ C19_EventDeterminesState

\* C20: an accepted resolve emits one OutcomeRecorded event whose
\* total_signals and correct_signals are the provider's counters after the
\* increment (one more signal, and one more correct signal when was_correct)
\* and whose was_correct is the one stored, derived from outcome and
\* return_bps; and in a step that resolves a commitment the event's counters
\* are the counters stored after the step.
C20_EventOfCall ==
    \A a \in DOMAIN signal_commits, oracle \in Keys, outcome \in Outcomes,
       final_price_cents \in FinalPrices, return_bps \in ReturnBps :
        LET p == providers[Commit(a).provider]
            r == RecordOutcomeTx(a, Commit(a).provider, oracle, outcome,
                                 final_price_cents, return_bps)
            e == r.events[1]
        IN r.result = Ok =>
               /\ Len(r.events) = 1 /\ e.type = "OutcomeRecorded"
               /\ e.provider = Commit(a).provider /\ e.signal_hash = Commit(a).signal_hash
               /\ e.outcome = outcome /\ e.return_bps = return_bps
               /\ e.was_correct = r.commit.was_correct
               /\ e.was_correct <=> (outcome = TP_HIT \/ (outcome = EXPIRED /\ return_bps > 0))
               /\ e.total_signals = p.total_signals + 1
               /\ e.correct_signals = p.correct_signals + (IF e.was_correct THEN 1 ELSE 0)
               /\ e.total_signals = r.provider.total_signals
               /\ e.correct_signals = r.provider.correct_signals

C20_EventOfStep ==
    \A a \in NewlyResolved :
        LET c == signal_commits'[a]
            q == providers'[Commit(a).provider]
            r == RecordOutcomeTx(a, Commit(a).provider, "bob", c.outcome,
                                 c.final_price_cents, c.return_bps)
        IN /\ r.result = Ok
           /\ r.events[1].total_signals = q.total_signals
           /\ r.events[1].correct_signals = q.correct_signals
           /\ r.events[1].was_correct = c.was_correct

C20_EventCarriesPostState == []C20_EventOfCall /\ [][C20_EventOfStep]_vars

\* A provider with one correct signal counted and a second one revealed:
\* resolving it as expired at break-even emits the counters 2 and 1.
C20_Witness ==
    \E a \in DOMAIN signal_commits :
        /\ Revealed(a) /\ ~Resolved(a)
        /\ Counters(ProviderOf(a)) = <<1, 1, 5>>
        /\ LET r == RecordOutcomeTx(a, Commit(a).provider, "bob", EXPIRED, 6700000, 0)
           IN /\ r.result = Ok
              /\ r.events[1].total_signals = 2
              /\ r.events[1].correct_signals = 1
              /\ ~r.events[1].was_correct

\* The value a field has after an update that supplies v for it.
Updated(old, v) == IF IsSome(v) THEN Unwrap(v) ELSE old

\* C21: an accepted update leaves the Provider with each of name, endpoint
\* and price set to the value supplied or, where none is supplied, as it
\* was, updated_at set to the current time and every other field as it was;
\* an update that supplies nothing is accepted; and no update step changes
\* a provider's owner, categories, created_at or counters.
C21_UpdateCall ==
    \A p \in DOMAIN providers, name \in UpdateNames, endpoint \in {None, Some(EndpointOk)},
       price_lamports \in {None, Some(2000000)} :
        LET r == UpdateProviderTx(p, providers[p].authority, name, endpoint,
                                  price_lamports)
        IN /\ r.result = Ok
           /\ r.provider = [providers[p] EXCEPT
                                !.name = Updated(@, name),
                                !.endpoint = Updated(@, endpoint),
                                !.price_lamports = Updated(@, price_lamports),
                                !.updated_at = now]

C21_UpdateStep ==
    UpdateProviderAction(Keys, {NameNew}, {EndpointOk, EndpointLong}, Prices) =>
        \A p \in DOMAIN providers :
            /\ providers'[p].authority = providers[p].authority
            /\ providers'[p].categories = providers[p].categories
            /\ providers'[p].created_at = providers[p].created_at
            /\ Counters(providers'[p]) = Counters(providers[p])

C21_UpdateFrame == []C21_UpdateCall /\ [][C21_UpdateStep]_vars

\* A Provider that has been renamed and has counted a signal, at a time
\* later than its last update: an update that supplies nothing is accepted
\* and changes updated_at only.
C21_Witness ==
    \E p \in DOMAIN providers :
        /\ providers[p].name = NameNew
        /\ providers[p].total_signals = 1
        /\ now > providers[p].updated_at
        /\ LET r == UpdateProviderTx(p, providers[p].authority, None, None, None)
           IN /\ r.result = Ok
              /\ r.provider = [providers[p] EXCEPT !.updated_at = now]
              /\ r.provider # providers[p]

\* Outcome values that are none of the three defined.
BadOutcomes == Outcomes \ {TP_HIT, SL_HIT, EXPIRED}

\* What resolve returns when signer oracle calls it on commitment a.
Resolve(a, oracle, outcome, return_bps) ==
    RecordOutcomeTx(a, Commit(a).provider, oracle, outcome, 6700000, return_bps).result

\* C22: a resolve with an outcome that is none of 1, 2, 3 fails with
\* NotRevealed on a Committed commitment, with OutcomeAlreadyRecorded on a
\* Resolved one and with InvalidOutcome on a Revealed one that is not
\* resolved, where a resolve with outcome 1, 2 or 3 is accepted; and every
\* Resolved commitment stores outcome 1, 2 or 3.
C22_GuardOrder ==
    \A a \in DOMAIN signal_commits, oracle \in Keys, return_bps \in ReturnBps :
        /\ \A outcome \in BadOutcomes :
               Resolve(a, oracle, outcome, return_bps) =
                   IF ~Commit(a).revealed THEN "NotRevealed"
                   ELSE IF Commit(a).outcome_recorded THEN "OutcomeAlreadyRecorded"
                   ELSE "InvalidOutcome"
        /\ \A outcome \in Outcomes :
               /\ Resolve(a, oracle, outcome, return_bps) = "InvalidOutcome" =>
                      Revealed(a) /\ ~Resolved(a) /\ outcome \in BadOutcomes
               /\ Resolve(a, oracle, outcome, return_bps) = Ok =>
                      Revealed(a) /\ ~Resolved(a) /\ outcome \in {1, 2, 3}
        /\ Resolved(a) => Commit(a).outcome \in {TP_HIT, SL_HIT, EXPIRED}

\* One provider with a commitment in each phase, and a resolve with outcome
\* 0 or 4 on each.
C22_Witness ==
    \E a, b, c \in DOMAIN signal_commits :
        /\ Committed(a) /\ Resolve(a, "bob", 0, 5) = "NotRevealed"
        /\ Revealed(b) /\ ~Resolved(b)
        /\ Resolve(b, "bob", 4, 5) = "InvalidOutcome"
        /\ Resolve(b, "bob", 3, 5) = Ok
        /\ Resolved(c) /\ Resolve(c, "bob", 4, 5) = "OutcomeAlreadyRecorded"

\* The error of the bound a payload breaks (each payload explored breaks at
\* most one).
BoundError(P) ==
    IF Len(P.token) > 16 THEN "TokenTooLong"
    ELSE IF P.direction \notin {0, 1} THEN "InvalidDirection"
    ELSE IF P.timeframe_hours \notin 1..72 THEN "InvalidTimeframe"
    ELSE "InvalidConfidence"

\* C23: in every reachable state, every revealed SignalCommit stores a token
\* of at most 16 characters, a direction 0 or 1, a timeframe of 1 to 72
\* hours and a confidence of 0 to 100; the owner's reveal of a payload that
\* breaks a bound fails with the error of that bound, also when the digest
\* of the payload is the signal_hash; and a commitment to the digest of
\* such a payload is not revealed.
C23_RevealedWithinBounds ==
    \A a \in DOMAIN signal_commits :
        /\ Commit(a).revealed => InBounds(StoredPayload(Commit(a)))
        /\ \A P \in Payloads :
               /\ (Committed(a) /\ ~InBounds(P)) => OwnerReveal(a, P) = BoundError(P)
               /\ (~InBounds(P) /\ Digest(P) = Commit(a).signal_hash) =>
                      ~Commit(a).revealed

\* A commitment to the digest of a payload with a timeframe of 73 hours,
\* made before now and not revealed, next to a revealed one: the reveal of
\* that payload fails with InvalidTimeframe.
C23_Witness ==
    \E a, b \in DOMAIN signal_commits :
        /\ Committed(a)
        /\ Commit(a).signal_hash = Digest(PBad)
        /\ Commit(a).committed_at < now
        /\ OwnerReveal(a, PBad) = "InvalidTimeframe"
        /\ Revealed(b) /\ StoredPayload(Commit(b)) = P0

\* C24: in every step, every Provider and every SignalCommit that exists
\* still exists after it; a SignalCommit keeps its provider, signal_hash and
\* committed_at; once revealed it keeps its reveal payload and revealed_at;
\* once resolved it keeps its resolution payload and evaluated_at.
C24_RecordsKept ==
    /\ \A p \in DOMAIN providers : p \in DOMAIN providers'
    /\ \A a \in DOMAIN signal_commits :
           /\ a \in DOMAIN signal_commits'
           /\ LET c == Commit(a)
                  d == signal_commits'[a]
              IN /\ d.provider = c.provider
                 /\ d.signal_hash = c.signal_hash
                 /\ d.committed_at = c.committed_at
                 /\ c.revealed =>
                        /\ StoredPayload(d) = StoredPayload(c)
                        /\ d.revealed_at = c.revealed_at
                 /\ c.outcome_recorded =>
                        /\ StoredOutcome(d) = StoredOutcome(c)
                        /\ d.evaluated_at = c.evaluated_at

C24_AppendOnly == [][C24_RecordsKept]_vars

\* A commitment revealed, then resolved at a later time, and a second
\* commitment made later still.
C24_Witness ==
    \E a, b \in DOMAIN signal_commits :
        /\ Resolved(a)
        /\ Commit(a).revealed_at < Commit(a).evaluated_at
        /\ Commit(b).committed_at > Commit(a).evaluated_at

\* The sum of return_bps over a set of commitments.
RECURSIVE SumReturns(_)
SumReturns(S) ==
    IF S = {} THEN 0
    ELSE LET a == CHOOSE x \in S : TRUE
         IN Commit(a).return_bps + SumReturns(S \ {a})

\* C25: in every reachable state and for every provider, total_signals is
\* the number of its commitments with outcome_recorded, correct_signals the
\* number of those with was_correct, and total_return_bps the sum of their
\* return_bps.
C25_Conservation ==
    \A p \in DOMAIN providers :
        /\ providers[p].total_signals = Cardinality(ResolvedOf(p))
        /\ providers[p].correct_signals =
               Cardinality({a \in ResolvedOf(p) : Commit(a).was_correct})
        /\ providers[p].total_return_bps = SumReturns(ResolvedOf(p))

\* A provider with three signals resolved: a loss, a gain counted as
\* correct and an expiry at break-even counted as wrong.
C25_Witness ==
    \E p \in DOMAIN providers :
        /\ Counters(providers[p]) = <<3, 1, -2>>
        /\ \E a, b, c \in ResolvedOf(p) :
               /\ Commit(a).outcome = SL_HIT /\ Commit(a).return_bps = -7
               /\ Commit(b).outcome = TP_HIT /\ Commit(b).return_bps = 5
               /\ Commit(c).outcome = EXPIRED /\ Commit(c).return_bps = 0

\* C26: a resolve call that names a commitment together with a Provider
\* account other than the commitment's provider is refused, whoever signs
\* it and whatever its arguments; and a step that resolves a commitment
\* leaves every other provider as it was.
C26_ResolveNamesProvider ==
    \A a \in DOMAIN signal_commits, provider \in ProviderAddrs, oracle \in Keys,
       outcome \in Outcomes, final_price_cents \in FinalPrices, return_bps \in ReturnBps :
        LET r == RecordOutcomeTx(a, provider, oracle, outcome, final_price_cents,
                                 return_bps)
        IN /\ provider # Commit(a).provider => r.result \in Unauthorized
           /\ r.result = Ok => provider = Commit(a).provider

C26_ResolveCreditsOne ==
    \A a \in NewlyResolved :
        /\ Counters(providers'[Commit(a).provider]) # Counters(ProviderOf(a))
        /\ \A p \in DOMAIN providers :
               p # Commit(a).provider => providers'[p] = providers[p]

C26_ResolveCreditsOwner == []C26_ResolveNamesProvider /\ [][C26_ResolveCreditsOne]_vars

\* alice and bob have each revealed a commitment to the same digest and
\* alice's is resolved: a resolve of bob's that names alice's Provider is
\* refused, one that names bob's is accepted.
C26_Witness ==
    LET alice == ProviderPda("alice")
        bob == ProviderPda("bob")
        a == SignalPda(alice, Digest(P0))
        b == SignalPda(bob, Digest(P0))
    IN /\ Resolved(a) /\ Revealed(b) /\ ~Resolved(b)
       /\ Counters(providers[alice]) = <<1, 0, -7>>
       /\ Counters(providers[bob]) = <<0, 0, 0>>
       /\ RecordOutcomeTx(b, alice, "alice", SL_HIT, 6700000, -7).result \in Unauthorized
       /\ RecordOutcomeTx(b, bob, "alice", SL_HIT, 6700000, -7).result = Ok

\* Clock values a call may read: the current one and a later one.
CallClocks == {now, now + 1}

\* The resolve calls on commitment a.
ResolveCalls(a) ==
    {ResolveCall(oracle, Commit(a).provider, t, Commit(a).signal_hash, outcome, return_bps) :
        oracle \in Keys, t \in CallClocks, outcome \in OrderOutcomes,
        return_bps \in OrderReturns}

\* The calls on the Provider of an owner and on its commitments: the owner's
\* register, update, commit and reveal, and anyone's resolve.
GroupCalls(owner, clocks) ==
    LET p == ProviderPda(owner)
    IN UNION {
         {RegisterCall(owner, p, t), UpdateCall(owner, p, t, Some(NameNew)),
          UpdateCall(owner, p, t, None)}
         \cup {CommitCall(owner, p, t, h) : h \in OrderHashes}
         \cup {RevealCall(owner, p, t, h, P) : h \in OrderHashes, P \in {P0, P1}}
         \cup {ResolveCall(oracle, p, t, h, outcome, -7) :
                  oracle \in Keys, h \in OrderHashes, outcome \in OrderOutcomes}
         : t \in clocks}

\* The counters of every provider in store S.
CountersIn(S) == [p \in DOMAIN S.providers |-> Counters(S.providers[p])]

\* C27: for two different commitments that are revealed and not resolved, of
\* one provider or of two, and any resolve call on each (each call with the
\* clock value it reads), the two calls executed in either order return the
\* same results and leave the same SignalCommit records and the same
\* counters of every provider; any call on alice's records and any call on
\* bob's, executed in either order, return the same results and leave the
\* same accounts; and a call executed on the accounts of the current state
\* returns and writes what the instruction does.
C27_ResolvesCommute ==
    \A a, b \in DOMAIN signal_commits :
        (a # b /\ Revealed(a) /\ ~Resolved(a) /\ Revealed(b) /\ ~Resolved(b)) =>
            \A c \in ResolveCalls(a), d \in ResolveCalls(b) :
                LET cd == ExecBoth(Store, c, d)
                    dc == ExecBoth(Store, d, c)
                IN /\ cd.result.c = dc.result.d
                   /\ cd.result.d = dc.result.c
                   /\ cd.store.signal_commits = dc.store.signal_commits
                   /\ CountersIn(cd.store) = CountersIn(dc.store)

C27_DisjointCommute ==
    \A c \in GroupCalls("alice", CallClocks), d \in GroupCalls("bob", CallClocks) :
        LET cd == ExecBoth(Store, c, d)
            dc == ExecBoth(Store, d, c)
        IN /\ cd.result.c = dc.result.d
           /\ cd.result.d = dc.result.c
           /\ cd.store = dc.store

C27_ExecIsInstruction ==
    \A c \in GroupCalls("alice", {now}) \cup GroupCalls("bob", {now}) :
        LET e == Exec(Store, c)
            r == TxOf(c)
        IN /\ e.result = r.result
           /\ r.result # Ok => e.store = Store
           /\ (r.result = Ok /\ c.ix \in {"register", "update", "resolve"}) =>
                  e.store.providers = Put(providers, c.provider, r.provider)
           /\ (r.result = Ok /\ c.ix \in {"commit", "reveal", "resolve"}) =>
                  e.store.signal_commits = Put(signal_commits, c.signal_commit, r.commit)
           /\ (r.result = Ok /\ c.ix \in {"register", "update"}) =>
                  e.store.signal_commits = signal_commits
           /\ (r.result = Ok /\ c.ix \in {"commit", "reveal"}) =>
                  e.store.providers = providers

C27_OrderIndependence ==
    C27_ResolvesCommute /\ C27_DisjointCommute /\ C27_ExecIsInstruction

\* alice has two commitments revealed and not resolved, bob one: resolving
\* alice's two as a gain at one time and a loss at a later time leaves, in
\* either order, the counters 2, 1 and -2, but the updated_at of the call
\* executed last; bob's commit and alice's resolve are accepted in either
\* order.
C27_Witness ==
    LET alice == ProviderPda("alice")
        bob == ProviderPda("bob")
        a == SignalPda(alice, Digest(P0))
        b == SignalPda(alice, Digest(P1))
        c == ResolveCall("bob", alice, now, Digest(P0), TP_HIT, 5)
        d == ResolveCall("bob", alice, now + 1, Digest(P1), SL_HIT, -7)
        e == CommitCall("bob", bob, now, Digest(P1))
    IN /\ Revealed(a) /\ ~Resolved(a) /\ Revealed(b) /\ ~Resolved(b)
       /\ Revealed(SignalPda(bob, Digest(P0))) /\ ~IsSignal(SignalPda(bob, Digest(P1)))
       /\ ExecBoth(Store, c, d).result = [c |-> Ok, d |-> Ok]
       /\ ExecBoth(Store, d, c).result = [c |-> Ok, d |-> Ok]
       /\ Counters(ExecBoth(Store, c, d).store.providers[alice]) = <<2, 1, -2>>
       /\ Counters(ExecBoth(Store, d, c).store.providers[alice]) = <<2, 1, -2>>
       /\ ExecBoth(Store, c, d).store.providers[alice].updated_at = now + 1
       /\ ExecBoth(Store, d, c).store.providers[alice].updated_at = now
       /\ ExecBoth(Store, c, e).result = [c |-> Ok, d |-> Ok]
       /\ ExecBoth(Store, e, c).store = ExecBoth(Store, c, e).store

====
